---- MODULE Spec2Model ----
(***************************************************************************)
(* Change-audit recorder of go_web: the GORM plugin of                     *)
(* internal/database/audit.go, driven by the role service and repository   *)
(* (service/role.go, repository role) and by statements issued directly    *)
(* on the database handle.                                                 *)
(*                                                                         *)
(* Values are small naturals: a role Name, DisplayName is 1, 2, ... and 0  *)
(* is the empty string; DeletedAt is 0 for NULL and 1 for a timestamp.     *)
(* CreatedAt, UpdatedAt and Description are left out of the rows: the      *)
(* recorder treats them like DisplayName.  A JSON text is a sequence of    *)
(* <<key, value>> tokens, the empty sequence being the empty string.       *)
(***************************************************************************)
EXTENDS Integers, Sequences, FiniteSets, TLC

VARIABLES
    roles,        \* committed rows of table roles: id -> row (Name = 0: no row)
    audit_logs,   \* rows of table audit_logs, in insertion order
    nextAuditID,  \* auto-increment of audit_logs.id
    nextRoleID,   \* auto-increment of roles.id
    skipTx,       \* gorm.Config.SkipDefaultTransaction of the handle
    pc,           \* per worker: position in its current call
    stmt,         \* per worker: the gorm.Statement in flight
    tx,           \* per worker: uncommitted row write of the statement's transaction
    req,          \* per worker: the request being served and its outcome
    ops,          \* number of calls started so far
    faults        \* number of database failures so far

vars == <<roles, audit_logs, nextAuditID, nextRoleID, skipTx, pc, stmt, tx, req, ops,
          faults>>

(* ------------------------------ bounds --------------------------------- *)
MaxID == 2        \* role ids are 1..MaxID
MaxOps == 2       \* calls started in one behaviour
MaxFaults == 1    \* failing database calls in one behaviour
MaxNesting == 2   \* depth to which callbacks of nested statements are followed

Workers == {1, 2}
RoleIDs == 1..MaxID
Names == {1, 2}
\* <<table, id, value>> of the statements Table(t).Where("id = ?", id).Update(col, value)
TableUpdates == {<<"roles", 1, 0>>, <<"roles", 2, 1>>, <<"audit_logs", 1, 1>>}
\* <<displayName, status>> of an UpdateRole request: 0 and -1 are "not supplied"
UpdateInputs == {<<2, -1>>, <<0, 0>>}
\* <<id, status>> of the Exec that precedes Save inside a caller's transaction
TransactionInputs == {<<1, 0>>}
ActingUsers == {7}
ClientAddrs == {"10.0.0.1"}
\* <<Go type of the value under AuditUserIDKey, Go type of that under AuditIPKey>>
ContextTypes == {<<"uint", "string">>, <<"int", "string">>, <<"int64", "string">>,
                 <<"uint", "net.IP">>}

(* ------------------------------ JSON ----------------------------------- *)
EmptyString == <<>>

\* Typed Go values as they appear in Statement.Vars and in a context.
GoVal(k, v) == [kind |-> k, val |-> v]
NoVal == GoVal("none", 0)

(* ------------------------------ rows ----------------------------------- *)
NoRow == [Name |-> 0, DisplayName |-> 0, Status |-> 0, DeletedAt |-> 0]
Row(n, d, s, del) == [Name |-> n, DisplayName |-> d, Status |-> s, DeletedAt |-> del]

\* Permission rows preloaded into Role.Permissions: permission 1 is granted to
\* role 1 through role_permissions; its json tags name the keys of the nested text.
role_permissions == [r \in RoleIDs |-> IF r = 1 THEN 1 ELSE 0]

\* A model value handed to the ORM (Statement.Dest or the model loaded by First).
\*   kind "nil"    : no value
\*   kind "map"    : a map[string]interface{} (statements built from Table(name))
\*   kind "struct" : pointer to a model struct of type typ; f holds its fields
\*   kind "slice"  : a slice; elems holds its elements, values of the kinds above
Dest(k, typ, f) == [kind |-> k, typ |-> typ, f |-> f, elems |-> <<>>]
ZeroFields == [ID |-> 0, Name |-> 0, DisplayName |-> 0, Status |-> 0,
               DeletedAt |-> 0, Permissions |-> 0, RecordID |-> 0, UserID |-> 0]
NilDest == Dest("nil", "", ZeroFields)
MapDest == Dest("map", "", ZeroFields)
SliceOf(es) == [Dest("slice", "", ZeroFields) EXCEPT !.elems = es]
RoleStruct(id, row, perms) ==
    Dest("struct", "Role",
         [ZeroFields EXCEPT !.ID = id, !.Name = row.Name,
                            !.DisplayName = row.DisplayName, !.Status = row.Status,
                            !.DeletedAt = row.DeletedAt, !.Permissions = perms])
\* The AuditLog struct of an audit insert; its text columns are not part of the
\* value, no hook reads them.
AuditLogStruct(id, recordID, userID) ==
    Dest("struct", "AuditLog",
         [ZeroFields EXCEPT !.ID = id, !.RecordID = recordID, !.UserID = userID])
RowOf(d) == Row(d.f.Name, d.f.DisplayName, d.f.Status, d.f.DeletedAt)

\* Exported fields of the model structs in declaration order.
RoleFields == <<"ID", "DeletedAt", "Name", "DisplayName", "Status", "Permissions">>
AuditLogFields == <<"ID", "RecordID", "UserID">>
FieldsOf(typ) == IF typ = "AuditLog" THEN AuditLogFields ELSE RoleFields

\* encoding/json of one preloaded Permission element: keys are its json tags;
\* gorm.DeletedAt marshals to null or a time, omitempty never drops a struct.
PermissionJSON(n) ==
    IF n = 0 THEN <<>>
    ELSE << <<"Permissions[].id", n>>, <<"Permissions[].deleted_at", 0>>,
            <<"Permissions[].status", 1>> >>

RECURSIVE FieldTokens(_, _, _)
FieldTokens(f, names, i) ==
    IF i > Len(names) THEN <<>>
    ELSE LET name == names[i]
             rest == FieldTokens(f, names, i + 1)
         IN IF name = "Password" THEN rest
            ELSE IF name = "DeletedAt" THEN rest
            ELSE IF name = "Permissions"
                 THEN << <<name, f[name]>> >> \o PermissionJSON(f[name]) \o rest
            ELSE << <<name, f[name]>> >> \o rest

\* modelToMap: ok is FALSE for a value that is no struct.
modelToMap(d) ==
    IF d.kind = "struct"
    THEN [ok |-> TRUE, data |-> FieldTokens(d.f, FieldsOf(d.typ), 1)]
    ELSE [ok |-> FALSE, data |-> <<>>]

\* The slice branch of serializeModel: the maps of the elements that convert,
\* appended to a slice that is nil until the first append.
RECURSIVE results(_, _)
results(es, i) ==
    IF i > Len(es) THEN <<>>
    ELSE IF modelToMap(es[i]).ok
    THEN << << <<"{", 0>> >> \o modelToMap(es[i]).data >> \o results(es, i + 1)
    ELSE results(es, i + 1)

RECURSIVE Flat(_, _)
Flat(texts, i) == IF i > Len(texts) THEN <<>> ELSE texts[i] \o Flat(texts, i + 1)

\* json.Marshal of a slice of maps: null for the nil slice, an array otherwise.
MarshalResults(rs) ==
    IF rs = <<>> THEN << <<"null", 0>> >> ELSE << <<"[", 0>> >> \o Flat(rs, 1)

serializeModel(d) ==
    IF d.kind = "nil" THEN EmptyString
    ELSE IF d.kind = "slice" THEN MarshalResults(results(d.elems, 1))
    ELSE LET m == modelToMap(d)
         IN IF m.ok THEN << <<"{", 0>> >> \o m.data ELSE EmptyString

(* --------------------------- gorm.Statement ---------------------------- *)
\* A context: the acting user and client address attached by the caller, and
\* the prior state staged under AuditOldValuesKey.
\* A variant that still carries a text staged during an earlier statement.
BackgroundWithStagedText ==
    [user |-> NoVal, ip |-> [kind |-> "none", val |-> ""],
     hasOld |-> TRUE, old |-> << <<"{", 0>>, <<"ID", 1>> >>]

Background == [user |-> NoVal, ip |-> [kind |-> "none", val |-> ""],
               hasOld |-> FALSE, old |-> EmptyString]
WithAudit(u, a) == [Background EXCEPT !.user = GoVal("uint", u),
                                      !.ip = [kind |-> "string", val |-> a]]

\* Bookkeeping of one statement, for the properties only:
\*   pre, post    the addressed row just before and just after the mutating statement
\*   read, readOk the row the before-hook's First addressed, and whether the query ran
\*   seen, seenOk the same for the after-hook's reload
\*   dbErr        the error of the mutating statement itself
\*   insOk        the after-hook's audit insert was not made to fail
\*   mine         the audit rows the statement's hooks inserted, as inserted
NoGhost == [pre |-> NoRow, post |-> NoRow, read |-> NoRow, readOk |-> FALSE,
            seen |-> NoRow, seenOk |-> FALSE, dbErr |-> "", insOk |-> FALSE,
            mine |-> <<>>]

\* op      the callback chain: "create", "update", "delete" ("none": no statement)
\* schema  Statement.Schema.Table, "" when Statement.Schema is nil
\* table   Statement.Table
\* condID, condName, setVal  the caller's conditions and assignment (0, 0, -1: none)
\* vars    Statement.Vars, empty until the statement is built
\* err     Statement.DB.Error ("" is nil); rows is RowsAffected
\* save    the statement was issued by Save
\* g       bookkeeping for the properties, never read by the program
NoStmt == [op |-> "none", schema |-> "", table |-> "", dest |-> NilDest,
           condID |-> 0, condName |-> 0, setVal |-> -1, vars |-> <<>>,
           ctx |-> Background, err |-> "", rows |-> 0, save |-> FALSE, g |-> NoGhost]

getTableName(s) ==
    IF s.schema # "" THEN s.schema
    ELSE IF s.table # "" THEN s.table
    ELSE ""

extractIDFromValue(v) ==
    IF v.kind \in {"uint", "int"} /\ v.val > 0 THEN v.val ELSE 0

\* A variant that keeps looking and returns the last positive value.
RECURSIVE LastPositiveVar(_, _)
LastPositiveVar(vs, i) ==
    IF i > Len(vs) THEN 0
    ELSE IF LastPositiveVar(vs, i + 1) > 0 THEN LastPositiveVar(vs, i + 1)
    ELSE extractIDFromValue(vs[i])

RECURSIVE FirstPositiveVar(_, _)
FirstPositiveVar(vs, i) ==
    IF i > Len(vs) THEN 0
    ELSE IF extractIDFromValue(vs[i]) > 0 THEN extractIDFromValue(vs[i])
    ELSE FirstPositiveVar(vs, i + 1)

\* Both model types declare ID as their primary key, so the schema's
\* PrioritizedPrimaryField, when there is a schema, is the field named ID.
\* A variant that looks at Statement.Vars before the primary field.
getRecordIDVarsFirst(s) ==
    LET bySchema == IF s.schema # "" /\ s.dest.kind = "struct"
                    THEN extractIDFromValue(GoVal("uint", s.dest.f.ID)) ELSE 0
        byVars == FirstPositiveVar(s.vars, 1)
    IN IF byVars > 0 THEN byVars ELSE bySchema

getRecordID(s) ==
    LET bySchema == IF s.schema # "" /\ s.dest.kind = "struct"
                    THEN extractIDFromValue(GoVal("uint", s.dest.f.ID)) ELSE 0
        byVars == FirstPositiveVar(s.vars, 1)
        byField == IF s.dest.kind = "struct"
                   THEN extractIDFromValue(GoVal("uint", s.dest.f.ID)) ELSE 0
    IN IF bySchema > 0 THEN bySchema
       ELSE IF byVars > 0 THEN byVars
       ELSE byField

\* A variant that takes an integer of any width.
getUserIDOfAnyInteger(s) ==
    IF s.ctx.user.kind \in {"uint", "uint64", "int64"} THEN s.ctx.user.val
    ELSE IF s.ctx.user.kind = "int" /\ s.ctx.user.val > 0 THEN s.ctx.user.val
    ELSE 0

getUserID(s) ==
    IF s.ctx.user.kind \in {"uint", "uint64"} THEN s.ctx.user.val
    ELSE IF s.ctx.user.kind = "int" /\ s.ctx.user.val > 0 THEN s.ctx.user.val
    ELSE 0

getIP(s) == IF s.ctx.ip.kind = "string" THEN s.ctx.ip.val ELSE ""

\* The first check of every hook.
IsAuditTable(s) == s.schema # "" /\ s.schema = "audit_logs"

AuditLog(table, recordID, action, old, new, user, ip) ==
    [ID |-> 0, ModelTableName |-> table, RecordID |-> recordID, Action |-> action,
     OldValues |-> old, NewValues |-> new, UserID |-> user, IP |-> ip]

(* ------------------------------ reads ---------------------------------- *)
\* First(model, id) on table roles as seen through table state tbl; ok is FALSE
\* when the query itself fails.  The default scope hides soft-deleted rows,
\* Unscoped() does not.  The loaded model carries no associations.
First(tbl, id, unscoped, ok) ==
    IF ok /\ id \in RoleIDs /\ tbl[id].Name # 0 /\ (unscoped \/ tbl[id].DeletedAt = 0)
    THEN [found |-> TRUE, model |-> RoleStruct(id, tbl[id], 0)]
    ELSE [found |-> FALSE, model |-> NilDest]

(* ------------------------------ hooks ---------------------------------- *)
\* Whether a before-hook gets as far as its First.
BeforeReads(s) ==
    ~IsAuditTable(s) /\ getTableName(s) # "" /\ getRecordID(s) # 0 /\ s.schema # ""

Time == GoVal("time", 0)
Str == GoVal("string", 0)

RECURSIVE auditCreate(_, _, _, _, _)

\* p.db.Session(&gorm.Session{NewDB: true}).Create(&auditLog): the insert runs
\* the create callbacks again, on a statement for audit_logs.  A failed insert
\* leaves its error on the *gorm.DB of the insert, which the hook drops.
\* A variant that hands the insert's error to the audited statement.
CreateAuditLogReturningError(entry, err, log, nid, ok, depth) ==
    IF ~ok THEN [log |-> log, nid |-> nid, err |-> "db error"]
    ELSE [log |-> Append(log, [entry EXCEPT !.ID = nid]), nid |-> nid + 1, err |-> err]

\* A variant that writes the entry with Save under a fixed key.
CreateAuditLogUnderOneKey(entry, err, log, nid, ok, depth) ==
    IF ~ok THEN [log |-> log, nid |-> nid, err |-> err]
    ELSE [log |-> IF log = <<>> THEN <<[entry EXCEPT !.ID = 1]>>
                  ELSE [log EXCEPT ![1] = [entry EXCEPT !.ID = 1]],
          nid |-> nid, err |-> err]

\* A variant that inserts through the statement's own session: the row is in
\* that transaction and not yet in the table.
CreateAuditLogInTheStatementsSession(entry, err, log, nid, ok, depth) ==
    IF ~ok THEN [log |-> log, nid |-> nid, err |-> err]
    ELSE [log |-> log, nid |-> nid + 1, err |-> err]

CreateAuditLog(entry, err, log, nid, ok, depth) ==
    IF ~ok THEN [log |-> log, nid |-> nid, err |-> err]
    ELSE LET stored == [entry EXCEPT !.ID = nid]
             inner == [NoStmt EXCEPT
                         !.op = "create", !.schema = "audit_logs",
                         !.table = "audit_logs",
                         !.dest = AuditLogStruct(nid, entry.RecordID, entry.UserID),
                         !.vars = <<Time, Str, GoVal("uint", entry.RecordID), Str,
                                    Str, Str, GoVal("uint", entry.UserID), Str>>]
             after == IF depth = 0
                      THEN [log |-> Append(log, stored), nid |-> nid + 1, err |-> ""]
                      ELSE auditCreate(inner, Append(log, stored), nid + 1, ok, depth - 1)
         IN [log |-> after.log, nid |-> after.nid, err |-> err]

\* A variant without the check of the statement's error.
auditCreateWhateverTheError(s, log, nid, ok, depth) ==
    LET skip == [log |-> log, nid |-> nid, err |-> s.err]
    IN IF IsAuditTable(s) THEN skip
       ELSE IF getTableName(s) = "" THEN skip
       ELSE IF getRecordID(s) = 0 THEN skip
       ELSE CreateAuditLog(
                AuditLog(getTableName(s), getRecordID(s), "create", EmptyString,
                         serializeModel(s.dest), getUserID(s), getIP(s)),
                s.err, log, nid, ok, depth)

auditCreate(s, log, nid, ok, depth) ==
    LET skip == [log |-> log, nid |-> nid, err |-> s.err]
    IN IF s.err # "" THEN skip
       ELSE IF IsAuditTable(s) THEN skip
       ELSE IF getTableName(s) = "" THEN skip
       ELSE IF getRecordID(s) = 0 THEN skip
       ELSE CreateAuditLog(
                AuditLog(getTableName(s), getRecordID(s), "create", EmptyString,
                         serializeModel(s.dest), getUserID(s), getIP(s)),
                s.err, log, nid, ok, depth)

\* auditBeforeUpdate and auditBeforeDelete: the same body.  view is the table as
\* the statement's own connection sees it; the result is the statement's context.
auditBefore(s, view, readOk) ==
    IF IsAuditTable(s) THEN s.ctx
    ELSE IF getTableName(s) = "" THEN s.ctx
    ELSE IF getRecordID(s) = 0 THEN s.ctx
    ELSE IF s.schema = "" THEN s.ctx
    ELSE LET r == First(view, getRecordID(s), FALSE, readOk)
         IN IF r.found
            THEN [s.ctx EXCEPT !.hasOld = TRUE, !.old = serializeModel(r.model)]
            ELSE s.ctx

\* A variant that stages the text of the value being written.
auditBeforeUpdateOfDest(s, view, readOk) ==
    IF BeforeReads(s)
    THEN [s.ctx EXCEPT !.hasOld = TRUE, !.old = serializeModel(s.dest)]
    ELSE s.ctx

auditBeforeUpdate(s, view, readOk) == auditBefore(s, view, readOk)
auditBeforeDelete(s, view, readOk) == auditBefore(s, view, readOk)

\* The prior state of the after-hooks: the staged text or, when that is empty,
\* an unscoped reload through the plugin's own handle (committed is what that
\* handle sees).
\* A variant whose reload keeps the default scope.
OldValuesScoped(s, committed, reloadOk) ==
    LET staged == IF s.ctx.hasOld THEN s.ctx.old ELSE EmptyString
    IN IF staged = EmptyString /\ s.schema # ""
       THEN LET r == First(committed, getRecordID(s), FALSE, reloadOk)
            IN IF r.found THEN serializeModel(r.model) ELSE EmptyString
       ELSE staged

\* A variant that reloads whatever is staged.
OldValuesAlwaysReloaded(s, committed, reloadOk) ==
    IF s.schema # ""
    THEN LET r == First(committed, getRecordID(s), TRUE, reloadOk)
         IN IF r.found THEN serializeModel(r.model) ELSE EmptyString
    ELSE EmptyString

OldValues(s, committed, reloadOk) ==
    LET staged == IF s.ctx.hasOld THEN s.ctx.old ELSE EmptyString
    IN IF staged = EmptyString /\ s.schema # ""
       THEN LET r == First(committed, getRecordID(s), TRUE, reloadOk)
            IN IF r.found THEN serializeModel(r.model) ELSE EmptyString
       ELSE staged

\* A variant without the check of the statement's error.
auditUpdateWhateverTheError(s, committed, reloadOk, log, nid, ok, depth) ==
    LET skip == [log |-> log, nid |-> nid, err |-> s.err]
    IN IF IsAuditTable(s) THEN skip
       ELSE IF getTableName(s) = "" THEN skip
       ELSE IF getRecordID(s) = 0 THEN skip
       ELSE CreateAuditLog(
                AuditLog(getTableName(s), getRecordID(s), "update",
                         OldValues(s, committed, reloadOk),
                         serializeModel(s.dest), getUserID(s), getIP(s)),
                s.err, log, nid, ok, depth)

auditUpdate(s, committed, reloadOk, log, nid, ok, depth) ==
    LET skip == [log |-> log, nid |-> nid, err |-> s.err]
    IN IF s.err # "" THEN skip
       ELSE IF IsAuditTable(s) THEN skip
       ELSE IF getTableName(s) = "" THEN skip
       ELSE IF getRecordID(s) = 0 THEN skip
       ELSE CreateAuditLog(
                AuditLog(getTableName(s), getRecordID(s), "update",
                         OldValues(s, committed, reloadOk),
                         serializeModel(s.dest), getUserID(s), getIP(s)),
                s.err, log, nid, ok, depth)

\* A variant without the check of the record key.
auditDeleteAnyKey(s, committed, reloadOk, log, nid, ok, depth) ==
    LET skip == [log |-> log, nid |-> nid, err |-> s.err]
    IN IF s.err # "" THEN skip
       ELSE IF IsAuditTable(s) THEN skip
       ELSE IF getTableName(s) = "" THEN skip
       ELSE CreateAuditLog(
                AuditLog(getTableName(s), getRecordID(s), "delete",
                         OldValues(s, committed, reloadOk),
                         EmptyString, getUserID(s), getIP(s)),
                s.err, log, nid, ok, depth)

auditDelete(s, committed, reloadOk, log, nid, ok, depth) ==
    LET skip == [log |-> log, nid |-> nid, err |-> s.err]
    IN IF s.err # "" THEN skip
       ELSE IF IsAuditTable(s) THEN skip
       ELSE IF getTableName(s) = "" THEN skip
       ELSE IF getRecordID(s) = 0 THEN skip
       ELSE CreateAuditLog(
                AuditLog(getTableName(s), getRecordID(s), "delete",
                         OldValues(s, committed, reloadOk),
                         EmptyString, getUserID(s), getIP(s)),
                s.err, log, nid, ok, depth)

\* SetAuditContext(db, userID, ip): the context of the handle it returns.
SetAuditContext(ctx, userID, ip) == ctx

(* ------------------------------ state ---------------------------------- *)
NoTx == [open |-> FALSE, id |-> 0, row |-> NoRow]
NoReq == [call |-> "none", user |-> 0, ip |-> "", err |-> "", args |-> <<>>]

\* Table roles as the connection of worker w sees it: inside the statement's
\* transaction its own uncommitted write is visible.
View(w) == [id \in RoleIDs |->
              IF tx[w].open /\ tx[w].id = id THEN tx[w].row ELSE roles[id]]

LockedByOther(w, id) == \E v \in Workers \ {w} : tx[v].open /\ tx[v].id = id

\* A row write of a statement: straight to the table when the handle skips the
\* default transaction and the caller has opened none, otherwise held in the
\* transaction until it commits.
WriteRow(w, id, row) ==
    IF skipTx /\ ~tx[w].open
    THEN /\ roles' = [roles EXCEPT ![id] = row]
         /\ tx' = tx
    ELSE /\ tx' = [tx EXCEPT ![w] = [open |-> TRUE, id |-> id, row |-> row]]
         /\ roles' = roles

Init ==
    /\ roles = [id \in RoleIDs |-> IF id = 1 THEN Row(1, 1, 1, 0) ELSE NoRow]
    /\ audit_logs = <<>>
    /\ nextAuditID = 1
    /\ nextRoleID = 2
    /\ skipTx \in BOOLEAN
    /\ pc = [w \in Workers |-> "idle"]
    /\ stmt = [w \in Workers |-> NoStmt]
    /\ tx = [w \in Workers |-> NoTx]
    /\ req = [w \in Workers |-> NoReq]
    /\ ops = 0
    /\ faults = 0

\* A request goes to the first idle worker: idle workers are interchangeable.
Begin(w) ==
    /\ pc[w] = "idle"
    /\ \A v \in Workers : v < w => pc[v] # "idle"
    /\ ops < MaxOps
    /\ ops' = ops + 1

\* A database call fails (ok is FALSE) at any time: connection loss, timeout.
Failing(oks) ==
    LET n == Cardinality({i \in 1..Len(oks) : ~oks[i]})
    IN /\ faults + n <= MaxFaults
       /\ faults' = faults + n

Req(call, u, a, e) == [call |-> call, user |-> u, ip |-> a, err |-> e, args |-> <<>>]

(* ----------------------- service and repository ------------------------ *)
\* A variant whose query never matches a row.
GetByNameNeverFinds(n, ok) ==
    IF ~ok THEN [err |-> "db error", id |-> 0]
    ELSE [err |-> "record not found", id |-> 0]

\* roleRepository.GetByName on the repository's handle.
GetByName(n, ok) ==
    IF ~ok THEN [err |-> "db error", id |-> 0]
    ELSE IF \E id \in RoleIDs : roles[id].Name = n /\ roles[id].DeletedAt = 0
    THEN [err |-> "", id |-> CHOOSE id \in RoleIDs :
                                roles[id].Name = n /\ roles[id].DeletedAt = 0]
    ELSE [err |-> "record not found", id |-> 0]

\* A variant that also loads soft-deleted roles.
GetByIDUnscoped(id, ok) ==
    IF ~ok THEN [err |-> "db error", role |-> NilDest]
    ELSE IF First(roles, id, TRUE, TRUE).found
    THEN [err |-> "", role |-> RoleStruct(id, roles[id], role_permissions[id])]
    ELSE [err |-> "record not found", role |-> NilDest]

\* roleRepository.GetByID: First with Permissions preloaded.
GetByID(id, ok) ==
    IF ~ok THEN [err |-> "db error", role |-> NilDest]
    ELSE IF First(roles, id, FALSE, TRUE).found
    THEN [err |-> "", role |-> RoleStruct(id, roles[id], role_permissions[id])]
    ELSE [err |-> "record not found", role |-> NilDest]

\* RoleHandler.CreateRole -> roleService.CreateRole up to roleRepo.Create:
\* the name check, then r.db.Create(role) on the repository's handle.
CreateRole(w) ==
    \E n \in Names, d \in {1}, u \in ActingUsers, a \in ClientAddrs,
       ok \in BOOLEAN :
        /\ Begin(w)
        /\ Failing(<<ok>>)
        /\ LET got == GetByName(n, ok)
           IN IF got.err = ""
              THEN /\ pc' = [pc EXCEPT ![w] = "done"]
                   /\ req' = [req EXCEPT ![w] = Req("CreateRole", u, a, "name exists")]
                   /\ stmt' = stmt
              ELSE IF got.err # "record not found"
              THEN /\ pc' = [pc EXCEPT ![w] = "done"]
                   /\ req' = [req EXCEPT ![w] = Req("CreateRole", u, a, got.err)]
                   /\ stmt' = stmt
              ELSE /\ pc' = [pc EXCEPT ![w] = "gorm_create"]
                   /\ req' = [req EXCEPT ![w] = Req("CreateRole", u, a, "")]
                   /\ stmt' = [stmt EXCEPT ![w] =
                          [NoStmt EXCEPT !.op = "create", !.schema = "roles",
                                         !.table = "roles",
                                         !.dest = RoleStruct(0, Row(n, d, 1, 0), 0)]]
        /\ UNCHANGED <<roles, audit_logs, nextAuditID, nextRoleID, skipTx, tx>>

\* RoleHandler.UpdateRole -> roleService.UpdateRole up to roleRepo.Update:
\* load, overwrite the supplied fields, then r.db.Save(role).
UpdateRole(w) ==
    \E id \in RoleIDs, in \in UpdateInputs, u \in ActingUsers,
       a \in ClientAddrs, ok \in BOOLEAN :
        /\ Begin(w)
        /\ Failing(<<ok>>)
        /\ LET got == GetByID(id, ok)
               d == in[1]
               st == in[2]
               r1 == IF d # 0 THEN [got.role EXCEPT !.f.DisplayName = d] ELSE got.role
               r2 == IF st >= 0 THEN [r1 EXCEPT !.f.Status = st] ELSE r1
           IN IF got.err # ""
              THEN /\ pc' = [pc EXCEPT ![w] = "done"]
                   /\ req' = [req EXCEPT ![w] =
                               [Req("UpdateRole", u, a, got.err) EXCEPT !.args = <<in[1], in[2], id>>]]
                   /\ stmt' = stmt
              ELSE /\ pc' = [pc EXCEPT ![w] = "before_update"]
                   /\ req' = [req EXCEPT ![w] =
                               [Req("UpdateRole", u, a, "") EXCEPT !.args = <<in[1], in[2], id>>]]
                   /\ stmt' = [stmt EXCEPT ![w] =
                          [NoStmt EXCEPT !.op = "update", !.schema = "roles",
                                         !.table = "roles", !.dest = r2,
                                         !.save = TRUE]]
        /\ UNCHANGED <<roles, audit_logs, nextAuditID, nextRoleID, skipTx, tx>>

\* RoleHandler.DeleteRole -> roleService.DeleteRole -> roleRepo.Delete:
\* r.db.Delete(&model.Role{}, id).
DeleteRole(w) ==
    \E id \in RoleIDs, u \in ActingUsers, a \in ClientAddrs :
        /\ Begin(w)
        /\ req' = [req EXCEPT ![w] = Req("DeleteRole", u, a, "")]
        /\ pc' = [pc EXCEPT ![w] = "before_delete"]
        /\ stmt' = [stmt EXCEPT ![w] =
               [NoStmt EXCEPT !.op = "delete", !.schema = "roles", !.table = "roles",
                              !.dest = RoleStruct(0, NoRow, 0), !.condID = id]]
        /\ UNCHANGED <<roles, audit_logs, nextAuditID, nextRoleID, skipTx, tx, faults>>

(* ------------------- statements issued on the handle ------------------- *)
\* db.WithContext(ctx).Delete(&model.Role{}, id), ctx built as the usage note
\* of SetAuditContext shows.
DeleteWithContext(w) ==
    \E id \in {1}, u \in ActingUsers, a \in ClientAddrs, t \in ContextTypes :
        /\ Begin(w)
        /\ req' = [req EXCEPT ![w] = Req("WithContext", u, a, "")]
        /\ pc' = [pc EXCEPT ![w] = "before_delete"]
        /\ stmt' = [stmt EXCEPT ![w] =
               [NoStmt EXCEPT !.op = "delete", !.schema = "roles", !.table = "roles",
                              !.dest = RoleStruct(0, NoRow, 0), !.condID = id,
                              !.ctx = [WithAudit(u, a) EXCEPT !.user.kind = t[1],
                                                              !.ip.kind = t[2]]]]
        /\ UNCHANGED <<roles, audit_logs, nextAuditID, nextRoleID, skipTx, tx, faults>>

\* SetAuditContext(db, userID, ip).Delete(&model.Role{}, id).
DeleteWithSetAuditContext(w) ==
    \E id \in {1}, u \in ActingUsers, a \in ClientAddrs :
        /\ Begin(w)
        /\ req' = [req EXCEPT ![w] = Req("SetAuditContext", u, a, "")]
        /\ pc' = [pc EXCEPT ![w] = "before_delete"]
        /\ stmt' = [stmt EXCEPT ![w] =
               [NoStmt EXCEPT !.op = "delete", !.schema = "roles", !.table = "roles",
                              !.dest = RoleStruct(0, NoRow, 0), !.condID = id,
                              !.ctx = SetAuditContext(Background, u, a)]]
        /\ UNCHANGED <<roles, audit_logs, nextAuditID, nextRoleID, skipTx, tx, faults>>

\* db.Where("name = ?", n).Delete(&model.Role{}): no key anywhere.
DeleteByName(w) ==
    \E n \in {1} :
        /\ Begin(w)
        /\ req' = [req EXCEPT ![w] = Req("direct", 0, "", "")]
        /\ pc' = [pc EXCEPT ![w] = "before_delete"]
        /\ stmt' = [stmt EXCEPT ![w] =
               [NoStmt EXCEPT !.op = "delete", !.schema = "roles", !.table = "roles",
                              !.dest = RoleStruct(0, NoRow, 0), !.condName = n]]
        /\ UNCHANGED <<roles, audit_logs, nextAuditID, nextRoleID, skipTx, tx, faults>>

\* db.Table(t).Where("id = ?", k).Update(column, v): a statement without a
\* schema; the column is status on roles and user_id on audit_logs.
TableUpdate(w) ==
    \E in \in TableUpdates :
      LET t == in[1]
          k == in[2]
          v == in[3]
      IN
        /\ Begin(w)
        /\ req' = [req EXCEPT ![w] = Req("direct", 0, "", "")]
        /\ pc' = [pc EXCEPT ![w] = "before_update"]
        /\ stmt' = [stmt EXCEPT ![w] =
               [NoStmt EXCEPT !.op = "update", !.table = t, !.dest = MapDest,
                              !.condID = k, !.setVal = v]]
        /\ UNCHANGED <<roles, audit_logs, nextAuditID, nextRoleID, skipTx, tx, faults>>

\* db.Transaction(func(tx) { tx.Exec("UPDATE roles SET status = ? WHERE id = ?",
\* st, id); return tx.Save(role) }), role loaded by GetByID beforehand: the
\* Exec runs no hook and leaves an uncommitted change of the row, held with
\* its lock in the caller's transaction, then Save runs its chain on tx.
SaveInTransaction(w) ==
    \E in \in TransactionInputs, ok \in BOOLEAN :
      LET id == in[1]
          st == in[2]
          got == GetByID(id, ok)
      IN
        /\ Begin(w)
        /\ Failing(<<ok>>)
        /\ got.err = ""
        /\ ~LockedByOther(w, id)
        /\ req' = [req EXCEPT ![w] = Req("Transaction", 0, "", "")]
        /\ tx' = [tx EXCEPT ![w] = [open |-> TRUE, id |-> id,
                                    row |-> [roles[id] EXCEPT !.Status = st]]]
        /\ pc' = [pc EXCEPT ![w] = "before_update"]
        /\ stmt' = [stmt EXCEPT ![w] =
               [NoStmt EXCEPT !.op = "update", !.schema = "roles", !.table = "roles",
                              !.dest = got.role, !.save = TRUE]]
        /\ UNCHANGED <<roles, audit_logs, nextAuditID, nextRoleID, skipTx>>

\* db.Delete(&AuditLog{}, k): a statement with the schema of audit_logs.
DeleteAuditLog(w) ==
    \E k \in {1} :
        /\ Begin(w)
        /\ req' = [req EXCEPT ![w] = Req("direct", 0, "", "")]
        /\ pc' = [pc EXCEPT ![w] = "before_delete"]
        /\ stmt' = [stmt EXCEPT ![w] =
               [NoStmt EXCEPT !.op = "delete", !.schema = "audit_logs",
                              !.table = "audit_logs",
                              !.dest = AuditLogStruct(0, 0, 0), !.condID = k]]
        /\ UNCHANGED <<roles, audit_logs, nextAuditID, nextRoleID, skipTx, tx, faults>>

(* ------------------------- callback chains ----------------------------- *)
\* The row a statement on roles addresses: by the key of Dest (Save), by the
\* id condition, or by the name condition.
TargetID(s, view) ==
    IF s.dest.kind = "struct" /\ s.dest.f.ID > 0 THEN s.dest.f.ID
    ELSE IF s.condID > 0 THEN s.condID
    ELSE IF \E id \in RoleIDs : view[id].Name = s.condName /\ view[id].DeletedAt = 0
    THEN CHOOSE id \in RoleIDs : view[id].Name = s.condName /\ view[id].DeletedAt = 0
    ELSE 0

\* Whether an after-hook gets as far as its reload.
AfterReloads(s) ==
    /\ s.err = "" /\ BeforeReads(s)
    /\ (IF s.ctx.hasOld THEN s.ctx.old ELSE EmptyString) = EmptyString
Seen(s, committed) ==
    IF AfterReloads(s) /\ getRecordID(s) \in RoleIDs
    THEN committed[getRecordID(s)] ELSE NoRow
NewRows(log, before) == SubSeq(log, Len(before) + 1, Len(log))

\* audit:before_update, registered before gorm:update.
AuditBeforeUpdate(w) ==
    /\ pc[w] = "before_update"
    /\ \E readOk \in BOOLEAN :
          LET s == stmt[w]
              id == getRecordID(s)
          IN /\ Failing(<<readOk>>)
             /\ stmt' = [stmt EXCEPT
                 ![w].ctx = auditBeforeUpdate(s, View(w), readOk),
                 ![w].g.readOk = readOk /\ BeforeReads(s),
                 ![w].g.read = IF BeforeReads(s) /\ id \in RoleIDs
                               THEN View(w)[id] ELSE NoRow]
    /\ pc' = [pc EXCEPT ![w] = "gorm_update"]
    /\ UNCHANGED <<roles, audit_logs, nextAuditID, nextRoleID, skipTx, tx, req, ops>>

\* gorm:update.  Save writes every column of Dest to the live row with Dest's
\* key; Table(t).Update writes one column of the row with the given id.
GormUpdate(w) ==
    /\ pc[w] = "gorm_update"
    /\ pc' = [pc EXCEPT ![w] = "audit_update"]
    /\ LET s == stmt[w]
           id == TargetID(s, View(w))
           old == IF id \in RoleIDs THEN View(w)[id] ELSE NoRow
       IN \E dbOk \in BOOLEAN :
            /\ Failing(<<dbOk>>)
            /\ IF ~dbOk
               THEN /\ stmt' = [stmt EXCEPT ![w].err = "db error",
                                                ![w].g.dbErr = "db error"]
                    /\ UNCHANGED <<roles, tx, audit_logs>>
               ELSE IF s.save
               THEN /\ ~LockedByOther(w, id)
                    /\ IF old.Name # 0 /\ old.DeletedAt = 0
                       THEN /\ WriteRow(w, id, RowOf(s.dest))
                            /\ stmt' = [stmt EXCEPT
                                   ![w].rows = 1,
                                   ![w].vars = <<Time, Str, GoVal("int", s.dest.f.Status),
                                                 GoVal("uint", id)>>,
                                   ![w].g.pre = old, ![w].g.post = RowOf(s.dest)]
                       ELSE /\ UNCHANGED <<roles, tx>>
                            /\ stmt' = [stmt EXCEPT
                                   ![w].rows = 0,
                                   ![w].vars = <<Time, Str, GoVal("int", s.dest.f.Status),
                                                 GoVal("uint", id)>>,
                                   ![w].g.pre = old, ![w].g.post = old]
                    /\ UNCHANGED audit_logs
               ELSE IF s.table = "roles"
               THEN /\ ~LockedByOther(w, id)
                    /\ IF old.Name # 0
                       THEN WriteRow(w, id, [old EXCEPT !.Status = s.setVal])
                       ELSE UNCHANGED <<roles, tx>>
                    /\ stmt' = [stmt EXCEPT
                           ![w].rows = IF old.Name # 0 THEN 1 ELSE 0,
                           ![w].vars = <<GoVal("int", s.setVal), GoVal("int", s.condID)>>,
                           ![w].g.pre = old,
                           ![w].g.post = IF old.Name # 0
                                         THEN [old EXCEPT !.Status = s.setVal] ELSE old]
                    /\ UNCHANGED audit_logs
               ELSE /\ audit_logs' = [i \in 1..Len(audit_logs) |->
                           IF audit_logs[i].ID = s.condID
                           THEN [audit_logs[i] EXCEPT !.UserID = s.setVal]
                           ELSE audit_logs[i]]
                    /\ stmt' = [stmt EXCEPT
                           ![w].rows = IF \E i \in 1..Len(audit_logs) :
                                             audit_logs[i].ID = s.condID THEN 1 ELSE 0,
                           ![w].vars = <<GoVal("int", s.setVal), GoVal("int", s.condID)>>]
                    /\ UNCHANGED <<roles, tx>>
    /\ UNCHANGED <<nextAuditID, nextRoleID, skipTx, req, ops>>

\* audit:update, registered after gorm:update.  The reload and the insert go
\* through the plugin's handle, which sees committed rows only.
AuditUpdate(w) ==
    /\ pc[w] = "audit_update"
    /\ \E reloadOk \in BOOLEAN, ok \in BOOLEAN :
          LET r == auditUpdate(stmt[w], roles, reloadOk, audit_logs, nextAuditID,
                               ok, MaxNesting)
          IN /\ Failing(<<reloadOk, ok>>)
             /\ audit_logs' = r.log
             /\ nextAuditID' = r.nid
             /\ stmt' = [stmt EXCEPT
                    ![w].err = r.err,
                    ![w].g.insOk = ok,
                    ![w].g.seen = Seen(stmt[w], roles),
                    ![w].g.seenOk = reloadOk /\ AfterReloads(stmt[w]),
                    ![w].g.mine = @ \o NewRows(r.log, audit_logs)]
    /\ pc' = [pc EXCEPT ![w] = IF req[w].call = "Transaction" THEN "in_tx"
                                                               ELSE "commit"]
    /\ UNCHANGED <<roles, nextRoleID, skipTx, tx, req, ops>>

\* audit:before_delete, registered before gorm:delete.
AuditBeforeDelete(w) ==
    /\ pc[w] = "before_delete"
    /\ \E readOk \in BOOLEAN :
          LET s == stmt[w]
              id == getRecordID(s)
          IN /\ Failing(<<readOk>>)
             /\ stmt' = [stmt EXCEPT
                 ![w].ctx = auditBeforeDelete(s, View(w), readOk),
                 ![w].g.readOk = readOk /\ BeforeReads(s),
                 ![w].g.read = IF BeforeReads(s) /\ id \in RoleIDs
                               THEN View(w)[id] ELSE NoRow]
    /\ pc' = [pc EXCEPT ![w] = "gorm_delete"]
    /\ UNCHANGED <<roles, audit_logs, nextAuditID, nextRoleID, skipTx, tx, req, ops>>

\* gorm:delete.  model.Role has a DeletedAt column, so the delete is an
\* UPDATE that sets deleted_at on the live row; AuditLog has none and its
\* rows are removed.
GormDelete(w) ==
    /\ pc[w] = "gorm_delete"
    /\ pc' = [pc EXCEPT ![w] = "audit_delete"]
    /\ LET s == stmt[w]
           id == TargetID(s, View(w))
           old == IF id \in RoleIDs THEN View(w)[id] ELSE NoRow
           bound == IF s.condID > 0 THEN GoVal("uint", s.condID) ELSE Str
       IN \E dbOk \in BOOLEAN :
            /\ Failing(<<dbOk>>)
            /\ IF ~dbOk
               THEN /\ stmt' = [stmt EXCEPT ![w].err = "db error",
                                                ![w].g.dbErr = "db error"]
                    /\ UNCHANGED <<roles, tx, audit_logs>>
               ELSE IF s.schema = "roles"
               THEN /\ ~LockedByOther(w, id)
                    /\ IF old.Name # 0 /\ old.DeletedAt = 0
                       THEN WriteRow(w, id, [old EXCEPT !.DeletedAt = 1])
                       ELSE UNCHANGED <<roles, tx>>
                    /\ stmt' = [stmt EXCEPT
                           ![w].rows = IF old.Name # 0 /\ old.DeletedAt = 0 THEN 1 ELSE 0,
                           ![w].vars = <<Time, bound>>,
                           ![w].dest.f.DeletedAt = 1,
                           ![w].g.pre = old,
                           ![w].g.post = IF old.Name # 0 /\ old.DeletedAt = 0
                                         THEN [old EXCEPT !.DeletedAt = 1] ELSE old]
                    /\ UNCHANGED audit_logs
               ELSE /\ audit_logs' = SelectSeq(audit_logs, LAMBDA e : e.ID # s.condID)
                    /\ stmt' = [stmt EXCEPT
                           ![w].rows = IF \E i \in 1..Len(audit_logs) :
                                             audit_logs[i].ID = s.condID THEN 1 ELSE 0,
                           ![w].vars = <<bound>>]
                    /\ UNCHANGED <<roles, tx>>
    /\ UNCHANGED <<nextAuditID, nextRoleID, skipTx, req, ops>>

\* audit:delete, registered after gorm:delete.
AuditDelete(w) ==
    /\ pc[w] = "audit_delete"
    /\ \E reloadOk \in BOOLEAN, ok \in BOOLEAN :
          LET r == auditDelete(stmt[w], roles, reloadOk, audit_logs, nextAuditID,
                               ok, MaxNesting)
          IN /\ Failing(<<reloadOk, ok>>)
             /\ audit_logs' = r.log
             /\ nextAuditID' = r.nid
             /\ stmt' = [stmt EXCEPT
                    ![w].err = r.err,
                    ![w].g.insOk = ok,
                    ![w].g.seen = Seen(stmt[w], roles),
                    ![w].g.seenOk = reloadOk /\ AfterReloads(stmt[w]),
                    ![w].g.mine = @ \o NewRows(r.log, audit_logs)]
    /\ pc' = [pc EXCEPT ![w] = "commit"]
    /\ UNCHANGED <<roles, nextRoleID, skipTx, tx, req, ops>>

\* A variant without the index.
NoIndexOnName(tbl, n) == FALSE

\* Role.Name is declared uniqueIndex: whether the index on name already holds n,
\* soft-deleted rows included.
uniqueIndex(tbl, n) == \E id \in RoleIDs : tbl[id].Name = n

\* gorm:create on roles.  Name carries a unique index that soft-deleted rows
\* stay in.  A Dest with a key (the second statement of Save) is written with
\* ON CONFLICT UPDATE ALL, which overwrites the row of that key.
GormCreate(w) ==
    /\ pc[w] = "gorm_create"
    /\ pc' = [pc EXCEPT ![w] = "audit_create"]
    /\ LET s == stmt[w]
           new == RowOf(s.dest)
           built == <<Time, Str, GoVal("int", s.dest.f.Status)>>
       IN \E dbOk \in BOOLEAN :
            /\ Failing(<<dbOk>>)
            /\ IF ~dbOk
               THEN /\ stmt' = [stmt EXCEPT ![w].err = "db error",
                                                ![w].g.dbErr = "db error"]
                    /\ UNCHANGED <<roles, tx, nextRoleID>>
               ELSE IF s.dest.f.ID > 0
               THEN /\ ~LockedByOther(w, s.dest.f.ID)
                    /\ WriteRow(w, s.dest.f.ID, new)
                    /\ stmt' = [stmt EXCEPT
                           ![w].rows = 1,
                           ![w].vars = built \o <<GoVal("uint", s.dest.f.ID)>>,
                           ![w].g.post = new]
                    /\ UNCHANGED nextRoleID
               ELSE /\ ~\E v \in Workers \ {w} : tx[v].open /\ tx[v].row.Name = new.Name
                    /\ IF uniqueIndex(roles, new.Name)
                       THEN /\ stmt' = [stmt EXCEPT ![w].err = "duplicate entry",
                                                    ![w].g.dbErr = "duplicate entry",
                                                    ![w].vars = built]
                            /\ UNCHANGED <<roles, tx, nextRoleID>>
                       ELSE /\ nextRoleID <= MaxID
                            /\ WriteRow(w, nextRoleID, new)
                            /\ nextRoleID' = nextRoleID + 1
                            /\ stmt' = [stmt EXCEPT
                                   ![w].rows = 1, ![w].vars = built,
                                   ![w].dest.f.ID = nextRoleID,
                                   ![w].g.post = new]
    /\ UNCHANGED <<audit_logs, nextAuditID, skipTx, req, ops>>

\* audit:create, registered after gorm:create.
AuditCreate(w) ==
    /\ pc[w] = "audit_create"
    /\ \E ok \in BOOLEAN :
          LET r == auditCreate(stmt[w], audit_logs, nextAuditID, ok, MaxNesting)
          IN /\ Failing(<<ok>>)
             /\ audit_logs' = r.log
             /\ nextAuditID' = r.nid
             /\ stmt' = [stmt EXCEPT
                    ![w].err = r.err,
                    ![w].g.insOk = ok,
                    ![w].g.mine = @ \o NewRows(r.log, audit_logs)]
    /\ pc' = [pc EXCEPT ![w] = "commit"]
    /\ UNCHANGED <<roles, nextRoleID, skipTx, tx, req, ops>>

\* gorm:commit_or_rollback_transaction ends the chain.  Save then looks at the
\* update it ran: no error and no row affected makes it run Create on the same
\* value; otherwise the statement's error is what the caller gets.
Commit(w) ==
    /\ pc[w] = "commit"
    /\ LET s == stmt[w]
       IN /\ roles' = IF tx[w].open /\ s.err = ""
                      THEN [roles EXCEPT ![tx[w].id] = tx[w].row] ELSE roles
          /\ tx' = [tx EXCEPT ![w] = NoTx]
          /\ IF s.op = "update" /\ s.save /\ s.err = "" /\ s.rows = 0
             THEN /\ stmt' = [stmt EXCEPT ![w].op = "create", ![w].vars = <<>>,
                                          ![w].ctx.hasOld = FALSE,
                                          ![w].ctx.old = EmptyString]
                  /\ pc' = [pc EXCEPT ![w] = "gorm_create"]
                  /\ req' = req
             ELSE /\ stmt' = stmt
                  /\ pc' = [pc EXCEPT ![w] = "done"]
                  /\ req' = [req EXCEPT ![w].err = s.err]
    /\ UNCHANGED <<audit_logs, nextAuditID, nextRoleID, skipTx, ops, faults>>

\* The caller's transaction ends.  db.Transaction commits when its function
\* returns nil.
CommitTransaction(w) ==
    /\ pc[w] = "in_tx"
    /\ stmt[w].err = ""
    /\ roles' = [roles EXCEPT ![tx[w].id] = tx[w].row]
    /\ tx' = [tx EXCEPT ![w] = NoTx]
    /\ pc' = [pc EXCEPT ![w] = "done"]
    /\ req' = [req EXCEPT ![w].err = ""]
    /\ UNCHANGED <<audit_logs, nextAuditID, nextRoleID, skipTx, stmt, ops, faults>>

\* db.Transaction rolls back when its function returns an error: that of Save,
\* or that of a later step of the function.
RollbackTransaction(w) ==
    /\ pc[w] = "in_tx"
    /\ IF stmt[w].err # "" THEN faults' = faults ELSE Failing(<<FALSE>>)
    /\ tx' = [tx EXCEPT ![w] = NoTx]
    /\ pc' = [pc EXCEPT ![w] = "done"]
    /\ req' = [req EXCEPT ![w].err = IF stmt[w].err # "" THEN stmt[w].err
                                                         ELSE "rolled back"]
    /\ UNCHANGED <<roles, audit_logs, nextAuditID, nextRoleID, skipTx, stmt, ops>>

\* The handler answers and the worker takes the next request.
Return(w) ==
    /\ pc[w] = "done"
    /\ pc' = [pc EXCEPT ![w] = "idle"]
    /\ stmt' = [stmt EXCEPT ![w] = NoStmt]
    /\ req' = [req EXCEPT ![w] = NoReq]
    /\ UNCHANGED <<roles, audit_logs, nextAuditID, nextRoleID, skipTx, tx, ops, faults>>

Next ==
    \E w \in Workers :
        \/ CreateRole(w)
        \/ UpdateRole(w)
        \/ DeleteRole(w)
        \/ DeleteWithContext(w)
        \/ DeleteWithSetAuditContext(w)
        \/ DeleteByName(w)
        \/ TableUpdate(w)
        \/ DeleteAuditLog(w)
        \/ SaveInTransaction(w)
        \/ AuditBeforeUpdate(w)
        \/ GormUpdate(w)
        \/ AuditUpdate(w)
        \/ AuditBeforeDelete(w)
        \/ GormDelete(w)
        \/ AuditDelete(w)
        \/ GormCreate(w)
        \/ AuditCreate(w)
        \/ Commit(w)
        \/ CommitTransaction(w)
        \/ RollbackTransaction(w)
        \/ Return(w)

Spec == Init /\ [][Next]_vars

(* ---------------------------- properties ------------------------------- *)
\* What a finished call shows, until the worker returns.
Appended(w) == stmt[w].g.mine
WithAction(w, a) == {i \in 1..Len(Appended(w)) : Appended(w)[i].Action = a}
KeyOf(w) == TargetID(stmt[w], roles)
PreText(w) == serializeModel(RoleStruct(KeyOf(w), stmt[w].g.pre, 0))

\* Save matched and rewrote a live row of roles.
UpdatedRecord(w) ==
    /\ pc[w] = "done" /\ stmt[w].op = "update" /\ stmt[w].save
    /\ stmt[w].err = "" /\ stmt[w].rows = 1

\* Delete soft-deleted a live row of roles.
DeletedRecord(w) ==
    /\ pc[w] = "done" /\ stmt[w].op = "delete" /\ stmt[w].schema = "roles"
    /\ stmt[w].err = "" /\ stmt[w].rows = 1

\* Create (or the insert Save falls back to) stored a row of roles.
CreatedRecord(w) ==
    /\ pc[w] = "done" /\ stmt[w].op = "create" /\ stmt[w].schema = "roles"
    /\ stmt[w].err = "" /\ stmt[w].rows = 1

\* C1 as stated: every successful Save of an existing record appends exactly
\* one entry with action update whose old_values is the text of the row just
\* before the statement and whose new_values is the text of the record written.
C1_ExactlyOneUpdateEntry ==
    \A w \in Workers :
        UpdatedRecord(w) =>
            /\ Len(Appended(w)) = 1
            /\ Appended(w)[1].Action = "update"
            /\ Appended(w)[1].OldValues = PreText(w)
            /\ Appended(w)[1].NewValues = serializeModel(stmt[w].dest)

\* C1, amended: a successful Save of an existing record appends at most one
\* entry, and exactly one when the audit insert does not fail.  The entry has
\* action update, the record's table and key, new_values the text of the
\* record written (whose columns are the row after the statement), and
\* old_values the text of the row just before the statement provided the
\* before-hook's read ran and the row was not changed between that read and
\* the statement.
C1_UpdateEntry ==
    \A w \in Workers :
        UpdatedRecord(w) =>
            LET g == stmt[w].g
                m == Appended(w)
            IN /\ Len(m) <= 1
               /\ g.insOk => Len(m) = 1
               /\ Len(m) = 1 =>
                    /\ m[1].Action = "update"
                    /\ m[1].ModelTableName = "roles"
                    /\ m[1].RecordID = KeyOf(w)
                    /\ m[1].NewValues = serializeModel(stmt[w].dest)
                    /\ RowOf(stmt[w].dest) = g.post
                    /\ (g.readOk /\ g.read = g.pre) => m[1].OldValues = PreText(w)

\* A Save that changed a column and whose entry carries the prior and new text.
C1_Witness ==
    \E w \in Workers :
        /\ UpdatedRecord(w)
        /\ stmt[w].g.pre # stmt[w].g.post
        /\ Len(Appended(w)) = 1
        /\ Appended(w)[1].OldValues = PreText(w)
        /\ Appended(w)[1].NewValues = serializeModel(stmt[w].dest)
        /\ Appended(w)[1].OldValues # Appended(w)[1].NewValues

\* C2 as stated: every successful delete of a record, delete-by-id included,
\* appends exactly one entry with action delete, old_values the text of the
\* row just before the delete and new_values empty.
C2_ExactlyOneDeleteEntry ==
    \A w \in Workers :
        DeletedRecord(w) =>
            /\ Len(Appended(w)) = 1
            /\ Appended(w)[1].Action = "delete"
            /\ Appended(w)[1].OldValues = PreText(w)
            /\ Appended(w)[1].NewValues = EmptyString

\* C2, amended: a successful delete appends at most one entry; exactly one
\* when the statement carries a key the recorder can resolve and the audit
\* insert does not fail, none when it carries no such key.  The entry has
\* action delete, the key, and empty new_values.  With nothing staged by the
\* before-hook (delete-by-id), old_values is the text of the row as the
\* after-hook reloads it, soft-deleted rows included: the text of the row just
\* before the delete when that reload ran and no other statement changed the
\* row in between.
C2_DeleteEntry ==
    \A w \in Workers :
        DeletedRecord(w) =>
            LET g == stmt[w].g
                m == Appended(w)
                key == getRecordID(stmt[w])
            IN /\ Len(m) <= 1
               /\ (g.insOk /\ key # 0) => Len(m) = 1
               /\ key = 0 => Len(m) = 0
               /\ Len(m) = 1 =>
                    /\ m[1].Action = "delete"
                    /\ m[1].ModelTableName = "roles"
                    /\ m[1].RecordID = key
                    /\ m[1].NewValues = EmptyString
                    /\ (g.seenOk /\ [g.seen EXCEPT !.DeletedAt = 0] = g.pre)
                          => m[1].OldValues = PreText(w)

\* A delete-by-id through the service whose entry carries the prior text.
C2_Witness ==
    \E w \in Workers :
        /\ DeletedRecord(w)
        /\ req[w].call = "DeleteRole"
        /\ ~stmt[w].ctx.hasOld
        /\ Len(Appended(w)) = 1
        /\ Appended(w)[1].Action = "delete"
        /\ Appended(w)[1].OldValues = PreText(w)
        /\ Appended(w)[1].OldValues # EmptyString
        /\ Appended(w)[1].NewValues = EmptyString

\* C3 as stated: every successful create of a record with a resolvable key
\* appends exactly one entry with action create, empty old_values and
\* new_values the text of the created record.
C3_ExactlyOneCreateEntry ==
    \A w \in Workers :
        (CreatedRecord(w) /\ getRecordID(stmt[w]) # 0) =>
            \E i \in 1..Len(Appended(w)) :
                /\ WithAction(w, "create") = {i}
                /\ Appended(w)[i].OldValues = EmptyString
                /\ Appended(w)[i].NewValues = serializeModel(stmt[w].dest)

\* C3, amended: a successful create of a record with a resolvable key appends
\* at most one entry with action create, and exactly one when the audit insert
\* does not fail; the entry has the record's table and key, empty old_values
\* and new_values the text of the created record.
C3_CreateEntry ==
    \A w \in Workers :
        (CreatedRecord(w) /\ getRecordID(stmt[w]) # 0) =>
            LET m == Appended(w)
                c == WithAction(w, "create")
            IN /\ Cardinality(c) <= 1
               /\ stmt[w].g.insOk => Cardinality(c) = 1
               /\ \A i \in c :
                    /\ m[i].ModelTableName = "roles"
                    /\ m[i].RecordID = stmt[w].dest.f.ID
                    /\ m[i].OldValues = EmptyString
                    /\ m[i].NewValues = serializeModel(stmt[w].dest)
                    /\ m[i].NewValues # EmptyString

\* CreateRole stored a new role and its entry is in the log.
C3_Witness ==
    \E w \in Workers :
        /\ CreatedRecord(w)
        /\ req[w].call = "CreateRole"
        /\ Len(Appended(w)) = 1
        /\ Appended(w)[1].Action = "create"
        /\ Appended(w)[1].RecordID = stmt[w].dest.f.ID
        /\ Appended(w)[1].NewValues = serializeModel(stmt[w].dest)

\* C4 as stated: no statement whose target table is audit_logs, with a schema
\* or with only a table name, ever produces an entry.
C4_AuditTableNeverAudited ==
    \A w \in Workers :
        getTableName(stmt[w]) = "audit_logs" => Appended(w) = <<>>

\* Keys of a text, nested ones included, and those that name a password or a
\* soft-deletion marker.
SensitiveKeys == {"Password", "DeletedAt", "password", "deleted_at",
                  "Permissions[].deleted_at", "Permissions[].password"}
KeysOf(text) == {text[i][1] : i \in 1..Len(text)}

\* C5 as stated: no old_values or new_values of any entry has a key for
\* Password or for the soft-deletion marker, at any nesting level.
C5_NoSensitiveKeyAnywhere ==
    \A i \in 1..Len(audit_logs) :
        (KeysOf(audit_logs[i].OldValues) \cup KeysOf(audit_logs[i].NewValues))
            \cap SensitiveKeys = {}

\* The positions at which a hook of the recorder runs next.
HookPositions == {"before_update", "audit_update", "before_delete", "audit_delete",
                  "audit_create"}

\* C6: no failure inside the recorder (a failed read of the prior state, a
\* failed reload, a failed audit insert) changes the audited write: a hook
\* leaves the statement's error, its affected rows, its value and the table
\* as the mutating statement made them, and the caller gets the error of the
\* mutating statement.
C6_RecorderNeverChangesTheWrite ==
    [][\A w \in Workers :
          /\ (pc[w] \in HookPositions /\ pc'[w] # pc[w]) =>
                /\ stmt'[w].err = stmt[w].err
                /\ stmt'[w].err = stmt[w].g.dbErr
                /\ stmt'[w].rows = stmt[w].rows
                /\ stmt'[w].dest = stmt[w].dest
                /\ roles' = roles
                /\ tx' = tx
          /\ (pc[w] = "commit" /\ pc'[w] = "done") =>
                /\ req'[w].err = stmt[w].g.dbErr
                /\ (tx[w].open /\ stmt[w].g.dbErr = "") =>
                       roles'[tx[w].id] = tx[w].row]_vars

\* The audit insert of a successful Save failed: no entry, and the caller has
\* its success and the row.
C6_Witness ==
    \E w \in Workers :
        /\ UpdatedRecord(w)
        /\ ~stmt[w].g.insOk
        /\ Appended(w) = <<>>
        /\ req[w].err = ""
        /\ stmt[w].g.pre # stmt[w].g.post
        /\ roles[KeyOf(w)] = stmt[w].g.post

\* C7: a statement whose record key the after-hook cannot resolve appends no
\* entry, and its result is that of the mutating statement.
C7_NoKeyNoEntry ==
    \A w \in Workers :
        (pc[w] \in {"commit", "done"} /\ stmt[w].op # "none"
           /\ getRecordID(stmt[w]) = 0) =>
            /\ Appended(w) = <<>>
            /\ stmt[w].err = stmt[w].g.dbErr
            /\ pc[w] = "done" => req[w].err = stmt[w].g.dbErr

\* A delete by name removed its row and left no entry.
C7_Witness ==
    \E w \in Workers :
        /\ DeletedRecord(w)
        /\ stmt[w].condName # 0
        /\ getRecordID(stmt[w]) = 0
        /\ req[w].err = ""
        /\ stmt[w].g.post.DeletedAt = 1
        /\ Appended(w) = <<>>

\* The mutating statement of a call issued directly against audit_logs runs.
DirectOnAuditLogs(w) ==
    /\ pc[w] \in {"gorm_update", "gorm_delete"}
    /\ getTableName(stmt[w]) = "audit_logs"
    /\ pc'[w] # pc[w]

\* C8: a step of a service, a repository or a hook never changes or removes
\* an entry the log already holds; it only appends.  The statements issued
\* directly against audit_logs are no such step.
C8_AppendOnly ==
    [][(\A w \in Workers : ~DirectOnAuditLogs(w)) =>
          /\ Len(audit_logs') >= Len(audit_logs)
          /\ SubSeq(audit_logs', 1, Len(audit_logs)) = audit_logs]_vars

\* A second entry was appended behind the first.
C8_Witness ==
    /\ Len(audit_logs) >= 2
    /\ audit_logs[1].ID = 1
    /\ audit_logs[2].ID = 2
    /\ \E w \in Workers : pc[w] = "done" /\ Len(Appended(w)) = 1
                          /\ Appended(w)[1] = audit_logs[2]

\* The calls that go handler, service, repository.
ServiceCalls == {"CreateRole", "UpdateRole", "DeleteRole"}

\* C9 as stated: an entry appended for a write that went through the chain
\* handler, service, repository has the request's user and client address.
C9_ServiceChainCarriesUser ==
    \A w \in Workers :
        req[w].call \in ServiceCalls =>
            \A i \in 1..Len(Appended(w)) :
                /\ Appended(w)[i].UserID = req[w].user
                /\ Appended(w)[i].IP = req[w].ip

\* C10 as stated: a write on the handle SetAuditContext(db, userID, ip)
\* returns produces entries with that user and address.
C10_SetAuditContextTakesEffect ==
    \A w \in Workers :
        req[w].call = "SetAuditContext" =>
            \A i \in 1..Len(Appended(w)) :
                /\ Appended(w)[i].UserID = req[w].user
                /\ Appended(w)[i].IP = req[w].ip

\* The update and delete entries a statement on roles has appended.
PriorStateEntries(w) ==
    {i \in 1..Len(Appended(w)) : Appended(w)[i].Action \in {"update", "delete"}}
ReadText(w) == serializeModel(RoleStruct(KeyOf(w), stmt[w].g.read, 0))

\* C11 as stated: the old_values of an update or delete entry is the text of
\* a state the row had before the mutating statement (the row just before it,
\* or the row the before-hook read) or is empty; it is never the text of the
\* row as read after the statement took effect.
C11_OldValuesNeverReadAfter ==
    \A w \in Workers :
        (pc[w] \in {"commit", "done"} /\ stmt[w].op \in {"update", "delete"}
           /\ getTableName(stmt[w]) = "roles") =>
            \A i \in PriorStateEntries(w) :
                \/ Appended(w)[i].OldValues = EmptyString
                \/ Appended(w)[i].OldValues = PreText(w)
                \/ stmt[w].g.readOk /\ Appended(w)[i].OldValues = ReadText(w)

\* C12 as stated: the record_id of every entry is the key of the row the
\* audited statement affected, however the key was resolved.
C12_RecordIDIsAffectedKey ==
    \A w \in Workers :
        (pc[w] \in {"commit", "done"} /\ getTableName(stmt[w]) = "roles"
           /\ stmt[w].err = "" /\ stmt[w].rows = 1) =>
            \A i \in 1..Len(Appended(w)) : Appended(w)[i].RecordID = KeyOf(w)

\* The positions at which an after-hook runs next.
AfterPositions == {"audit_create", "audit_update", "audit_delete"}

\* C13: within one statement the before-hook runs while the statement is not
\* yet built, writes nothing to audit_logs and is followed by the mutating
\* statement; audit_logs grows only in the step of an after-hook whose
\* mutating statement has run and ended without error.
C13_ReadThenWriteThenAudit ==
    [][/\ \A w \in Workers :
            /\ (pc[w] \in {"before_update", "before_delete"} /\ pc'[w] # pc[w]) =>
                  /\ stmt[w].vars = <<>>
                  /\ stmt[w].rows = 0
                  /\ audit_logs' = audit_logs
                  /\ pc'[w] = IF pc[w] = "before_update" THEN "gorm_update"
                                                        ELSE "gorm_delete"
            /\ Len(stmt'[w].g.mine) > Len(stmt[w].g.mine) =>
                  /\ pc[w] \in AfterPositions
                  /\ stmt[w].vars # <<>>
                  /\ stmt[w].err = "" /\ stmt[w].g.dbErr = ""
       /\ Len(audit_logs') > Len(audit_logs) =>
            \E w \in Workers : pc[w] \in AfterPositions
                               /\ pc'[w] \in {"commit", "in_tx"}
                               /\ Len(stmt'[w].g.mine) > Len(stmt[w].g.mine)]_vars

\* A Save whose before-hook read the row, whose UPDATE then ran, and whose
\* after-hook then inserted the entry.
C13_Witness ==
    \E w \in Workers :
        /\ pc[w] = "commit" /\ stmt[w].op = "update" /\ stmt[w].save
        /\ stmt[w].g.readOk /\ stmt[w].ctx.hasOld
        /\ stmt[w].rows = 1 /\ stmt[w].g.dbErr = ""
        /\ Len(Appended(w)) = 1

\* C14: a statement that ended with an error has no entry of its own action
\* appended by its after-hook, and a statement whose before-hook has read the
\* prior state and whose after-hook has not yet run has appended nothing.
C14_FailedStatementLeavesNoEntry ==
    \A w \in Workers :
        /\ (pc[w] \in {"commit", "done"} /\ stmt[w].op # "none"
              /\ stmt[w].g.dbErr # "") =>
                WithAction(w, stmt[w].op) = {}
        /\ pc[w] \in {"gorm_update", "gorm_delete", "audit_update", "audit_delete"} =>
                Appended(w) = <<>>

\* A Save whose UPDATE failed after the before-hook had read the row: the
\* caller has the error and the statement has no entry.
C14_Witness ==
    \E w \in Workers :
        /\ pc[w] = "done" /\ stmt[w].op = "update" /\ stmt[w].save
        /\ stmt[w].g.dbErr = "db error" /\ req[w].err = "db error"
        /\ stmt[w].ctx.hasOld
        /\ Appended(w) = <<>>

\* The text of the row the after-hook's reload addressed.
SeenText(w) == serializeModel(RoleStruct(getRecordID(stmt[w]), stmt[w].g.seen, 0))

\* C15: a statement starts with nothing staged; what its context holds staged
\* is the text its own before-hook read; and the old_values of its update or
\* delete entry is that text or, with nothing staged, what its own after-hook
\* reloaded (or empty).  No text staged by another operation gets in.
C15_StagedStateIsTheStatementsOwn ==
    \A w \in Workers :
        /\ pc[w] \in {"idle", "before_update", "before_delete"} =>
              ~stmt[w].ctx.hasOld /\ stmt[w].ctx.old = EmptyString
        /\ stmt[w].ctx.hasOld =>
              stmt[w].g.readOk /\ stmt[w].ctx.old = ReadText(w)
        /\ (pc[w] \in {"commit", "done"} /\ stmt[w].op \in {"update", "delete"}) =>
              \A i \in PriorStateEntries(w) :
                  IF stmt[w].ctx.hasOld
                  THEN Appended(w)[i].OldValues = stmt[w].ctx.old
                  ELSE Appended(w)[i].OldValues \in {EmptyString, SeenText(w)}

\* Two Saves of the same role, one after the other: each entry carries the
\* text its own statement staged, and the two texts differ.
C15_Witness ==
    \E w \in Workers, v \in Workers :
        /\ w # v
        /\ UpdatedRecord(w) /\ UpdatedRecord(v)
        /\ KeyOf(w) = KeyOf(v)
        /\ stmt[w].ctx.hasOld /\ stmt[v].ctx.hasOld
        /\ stmt[w].ctx.old # stmt[v].ctx.old
        /\ Len(Appended(w)) = 1 /\ Appended(w)[1].OldValues = stmt[w].ctx.old
        /\ Len(Appended(v)) = 1 /\ Appended(v)[1].OldValues = stmt[v].ctx.old

\* C16 as stated: the row a before-hook reads while the write runs inside an
\* open transaction of the caller is the committed row; uncommitted changes
\* of that transaction do not show in it.
C16_BeforeReadIgnoresUncommitted ==
    \A w \in Workers :
        (pc[w] \in {"gorm_update", "gorm_delete"} /\ tx[w].open
           /\ stmt[w].g.readOk) =>
            stmt[w].g.read = roles[getRecordID(stmt[w])]

\* An after-hook that gets as far as its insert.
Inserts(s) ==
    s.err = "" /\ ~IsAuditTable(s) /\ getTableName(s) # "" /\ getRecordID(s) # 0

\* C17: the insert of an after-hook is on table audit_logs in the very step of
\* the hook, whatever transaction the statement runs in and whatever other
\* transactions hold; the hook leaves every business transaction as it was;
\* and the commit or rollback that ends the business transaction leaves
\* audit_logs as it was.
C17_AuditInsertOutsideTheTransaction ==
    [][\A w \in Workers :
          /\ (pc[w] \in AfterPositions /\ pc'[w] # pc[w]) =>
                /\ audit_logs' =
                      audit_logs \o NewRows(stmt'[w].g.mine, stmt[w].g.mine)
                /\ (Inserts(stmt[w]) /\ stmt'[w].g.insOk) =>
                      Len(audit_logs') = Len(audit_logs) + 1
                /\ tx' = tx
          /\ (pc[w] \in {"commit", "in_tx"} /\ pc'[w] # pc[w]) =>
                audit_logs' = audit_logs]_vars

\* A caller's transaction was rolled back after its Save had been audited: the
\* row is as before and the entry is in the log.
C17_Witness ==
    \E w \in Workers :
        /\ pc[w] = "done" /\ req[w].call = "Transaction"
        /\ req[w].err = "rolled back"
        /\ Len(Appended(w)) = 1
        /\ \E i \in 1..Len(audit_logs) : audit_logs[i] = Appended(w)[1]
        /\ roles[KeyOf(w)] # stmt[w].g.post

\* C18: the entry of a Save whose before-hook staged the row carries the text
\* of the row that hook read, and that text differs from the text of the row
\* just before the UPDATE exactly when another writer changed the row between
\* the read and the UPDATE; the witness shows that this happens.
C18_StaleExactlyWhenAnotherWriterIntervened ==
    \A w \in Workers :
        (UpdatedRecord(w) /\ stmt[w].ctx.hasOld /\ Len(Appended(w)) = 1) =>
            /\ Appended(w)[1].OldValues = ReadText(w)
            /\ Appended(w)[1].OldValues # PreText(w) <=> stmt[w].g.read # stmt[w].g.pre

\* Another writer's update took effect between a Save's before-read and its
\* UPDATE: the entry's old_values is not the row just before the UPDATE.
C18_Witness ==
    \E w \in Workers, v \in Workers :
        /\ v # w
        /\ UpdatedRecord(v) /\ req[v].call = "UpdateRole" /\ KeyOf(v) = KeyOf(w)
        /\ stmt[v].g.post = stmt[w].g.pre
        /\ UpdatedRecord(w) /\ stmt[w].ctx.hasOld /\ req[w].call = "UpdateRole"
        /\ Len(Appended(w)) = 1
        /\ stmt[w].g.read # stmt[w].g.pre
        /\ Appended(w)[1].OldValues = ReadText(w)
        /\ Appended(w)[1].OldValues # PreText(w)

\* Statements to resolve a key for: those in flight and, beside them, every
\* combination of schema, in-memory value and bound parameters below.
VarsSamples == {<<>>, <<Str>>, <<Time, GoVal("uint", 2)>>,
                <<GoVal("int", 0), GoVal("int", 2), GoVal("uint", 1)>>,
                <<GoVal("int", -1), Str>>}
DestSamples == {NilDest, MapDest, RoleStruct(0, NoRow, 0), RoleStruct(1, NoRow, 0)}
StatementSamples ==
    {[NoStmt EXCEPT !.schema = sc, !.table = "roles", !.dest = d, !.vars = vs] :
        sc \in {"", "roles"}, d \in DestSamples, vs \in VarsSamples}
     \cup {stmt[w] : w \in Workers}

\* The three sources of a key, each 0 when it yields none.
PositiveVars(s) ==
    {i \in 1..Len(s.vars) : s.vars[i].kind \in {"uint", "int"} /\ s.vars[i].val > 0}
KeyBySchema(s) ==
    IF s.schema # "" /\ s.dest.kind = "struct" /\ s.dest.f.ID > 0 THEN s.dest.f.ID ELSE 0
KeyByVars(s) ==
    IF PositiveVars(s) = {} THEN 0
    ELSE s.vars[CHOOSE i \in PositiveVars(s) : \A j \in PositiveVars(s) : i <= j].val
KeyByIDField(s) ==
    IF s.dest.kind = "struct" /\ s.dest.f.ID > 0 THEN s.dest.f.ID ELSE 0

\* C19: getRecordID is the primary-key field of the in-memory record when the
\* statement has a schema and that field is positive; otherwise the first
\* positive integer among the bound parameters in their order; otherwise the
\* positive field ID of the in-memory record; and it is 0 exactly when none of
\* the three yields a positive value.
C19_getRecordIDPriority ==
    \A s \in StatementSamples :
        /\ KeyBySchema(s) > 0 => getRecordID(s) = KeyBySchema(s)
        /\ (KeyBySchema(s) = 0 /\ KeyByVars(s) > 0) => getRecordID(s) = KeyByVars(s)
        /\ (KeyBySchema(s) = 0 /\ KeyByVars(s) = 0) => getRecordID(s) = KeyByIDField(s)
        /\ getRecordID(s) = 0 <=>
              (KeyBySchema(s) = 0 /\ KeyByVars(s) = 0 /\ KeyByIDField(s) = 0)

\* A delete-by-id at its after-hook: the in-memory record has no key and the
\* key is the first positive bound parameter, behind the timestamp.
C19_Witness ==
    \E w \in Workers :
        /\ pc[w] = "audit_delete" /\ stmt[w].schema = "roles"
        /\ KeyBySchema(stmt[w]) = 0
        /\ Len(stmt[w].vars) = 2 /\ PositiveVars(stmt[w]) = {2}
        /\ getRecordID(stmt[w]) = stmt[w].condID
        /\ stmt[w].condID > 0

\* What an entry is expected to look like, part by part.
HasKey(e) == e.RecordID > 0
NamesABusinessTable(e) == e.ModelTableName # "" /\ e.ModelTableName # "audit_logs"
HasKnownAction(e) == e.Action \in {"create", "update", "delete"}
HasNoForeignSide(e) ==
    /\ e.Action = "create" => e.OldValues = <<>>
    /\ e.Action = "delete" => e.NewValues = <<>>
EntriesOtherwiseWellFormed ==
    \A i \in 1..Len(audit_logs) :
        HasKey(audit_logs[i]) /\ audit_logs[i].ModelTableName # ""
          /\ HasKnownAction(audit_logs[i]) /\ HasNoForeignSide(audit_logs[i])

\* C20 as stated: every stored entry has a positive record_id, a non-empty
\* table_name other than audit_logs and an action among create, update and
\* delete; a create entry has no old_values and a delete entry no new_values.
C20_EveryEntryWellFormed ==
    \A i \in 1..Len(audit_logs) :
        /\ HasKey(audit_logs[i])
        /\ NamesABusinessTable(audit_logs[i])
        /\ HasKnownAction(audit_logs[i])
        /\ HasNoForeignSide(audit_logs[i])

\* An update or delete that ran without error and affected no row.
MatchedNothing(w) ==
    /\ pc[w] = "done" /\ stmt[w].op \in {"update", "delete"}
    /\ stmt[w].err = "" /\ req[w].err = "" /\ stmt[w].rows = 0

\* C21 as stated: an update or delete that completes without error and
\* matches no stored record appends no entry.
C21_NoMatchNoEntry ==
    \A w \in Workers : MatchedNothing(w) => Appended(w) = <<>>

\* The role service called by one client, one call after the other: every
\* step is worker 1's, so no two statements ever overlap.
SequentialNext ==
    \/ CreateRole(1)
    \/ UpdateRole(1)
    \/ DeleteRole(1)
    \/ AuditBeforeUpdate(1)
    \/ GormUpdate(1)
    \/ AuditUpdate(1)
    \/ AuditBeforeDelete(1)
    \/ GormDelete(1)
    \/ AuditDelete(1)
    \/ GormCreate(1)
    \/ AuditCreate(1)
    \/ Commit(1)
    \/ Return(1)

SequentialSpec == Init /\ [][SequentialNext]_vars

\* Entry j is the next entry after entry i for the same record.
NextForRecord(i, j) ==
    /\ i < j
    /\ audit_logs[i].ModelTableName = audit_logs[j].ModelTableName
    /\ audit_logs[i].RecordID = audit_logs[j].RecordID
    /\ \A k \in (i + 1)..(j - 1) :
          \/ audit_logs[k].ModelTableName # audit_logs[j].ModelTableName
          \/ audit_logs[k].RecordID # audit_logs[j].RecordID

\* C22 as stated: with one call after the other and no database failure, the
\* old_values of every update or delete entry is the new_values of the entry
\* before it for the same record.
C22_OldValuesChainToNewValues ==
    faults = 0 =>
        \A i, j \in 1..Len(audit_logs) :
            (NextForRecord(i, j) /\ audit_logs[j].Action \in {"update", "delete"})
                => audit_logs[j].OldValues = audit_logs[i].NewValues

\* Values handed to serializeModel: those of the statements in flight and,
\* beside them, nil, a map, a struct and slices of them.
SerializeSamples ==
    {NilDest, MapDest, RoleStruct(1, Row(1, 1, 1, 0), 0), SliceOf(<<>>),
     SliceOf(<<MapDest>>), SliceOf(<<MapDest, MapDest>>),
     SliceOf(<<RoleStruct(1, Row(1, 1, 1, 0), 0)>>),
     SliceOf(<<MapDest, RoleStruct(1, Row(1, 1, 1, 0), 0)>>)}
      \cup {stmt[w].dest : w \in Workers}

\* The inputs whose serialization fails: nil, a value that is neither a struct
\* nor a collection, a collection with elements none of which is a struct.
FailsToSerialize(d) ==
    \/ d.kind = "nil"
    \/ d.kind \notin {"struct", "slice"}
    \/ /\ d.kind = "slice" /\ d.elems # <<>>
       /\ \A i \in 1..Len(d.elems) : d.elems[i].kind # "struct"

\* C23 as stated: for nil, for a value that is not a struct and for a
\* collection whose elements are not structs, serializeModel is the empty
\* string; and a statement whose value does not serialize keeps the result of
\* its mutating statement.
C23_FailureYieldsEmptyString ==
    /\ \A d \in SerializeSamples :
          FailsToSerialize(d) => serializeModel(d) = EmptyString
    /\ \A w \in Workers :
          (pc[w] \in {"commit", "done"} /\ FailsToSerialize(stmt[w].dest))
             => stmt[w].err = stmt[w].g.dbErr

\* What holds of serializeModel: nil and non-struct single values give the
\* empty string, and a statement whose value does not serialize keeps the
\* result of its mutating statement.
SingleValuesDegradeToEmpty ==
    /\ \A d \in SerializeSamples :
          (d.kind \notin {"struct", "slice"}) => serializeModel(d) = EmptyString
    /\ \A w \in Workers :
          (pc[w] \in {"commit", "done"} /\ FailsToSerialize(stmt[w].dest))
             => stmt[w].err = stmt[w].g.dbErr

\* The context values the recorder can read: an acting user held as uint,
\* uint64 or a positive int, a client address held as string.
ReadableUser(v) == v.kind \in {"uint", "uint64"} \/ (v.kind = "int" /\ v.val > 0)
ReadableAddr(v) == v.kind = "string"

\* C24 as stated: an entry's user_id is the acting user attached to the
\* statement's context when there is one and 0 when there is none, and its ip
\* is the attached client address when there is one and empty when there is
\* none.
C24_EntryCarriesContextValues ==
    \A w \in Workers :
        \A i \in 1..Len(Appended(w)) :
            /\ Appended(w)[i].UserID =
                  IF stmt[w].ctx.user.kind # "none" THEN stmt[w].ctx.user.val ELSE 0
            /\ Appended(w)[i].IP =
                  IF stmt[w].ctx.ip.kind # "none" THEN stmt[w].ctx.ip.val ELSE ""

\* C24, amended: an entry's user_id is the acting user attached to the
\* statement's context when that value is a uint, a uint64 or a positive int,
\* and 0 when none is attached or the attached value has any other type; its
\* ip is the attached client address when that value is a string and empty
\* when none is attached or it has another type.
C24_EntryCarriesReadableContextValues ==
    \A w \in Workers :
        \A i \in 1..Len(Appended(w)) :
            /\ Appended(w)[i].UserID =
                  IF ReadableUser(stmt[w].ctx.user) THEN stmt[w].ctx.user.val ELSE 0
            /\ Appended(w)[i].IP =
                  IF ReadableAddr(stmt[w].ctx.ip) THEN stmt[w].ctx.ip.val ELSE ""

\* A delete on a handle with a context: its entry has the request's user and
\* address.
C24_Witness ==
    \E w \in Workers :
        /\ req[w].call = "WithContext" /\ pc[w] = "done"
        /\ stmt[w].ctx.user.kind \in {"uint", "int"}
        /\ Len(Appended(w)) = 1
        /\ Appended(w)[1].UserID = req[w].user /\ req[w].user > 0
        /\ Appended(w)[1].IP = req[w].ip /\ req[w].ip # ""

\* An active role named n is stored.
ActiveName(n) == \E id \in RoleIDs : roles[id].Name = n /\ roles[id].DeletedAt = 0

\* C25: a CreateRole call goes on to its insert only when its name lookup ran
\* and found no active role of that name; when an active role of the name
\* exists, or the lookup fails with another error, the call ends at once with
\* an error (that of the lookup when it failed) and writes nothing.
C25_CreateRoleRefusesTakenName ==
    [][\A w \in Workers :
          (req[w].call = "none" /\ req'[w].call = "CreateRole") =>
              /\ stmt'[w].op = "create" =>
                    /\ faults' = faults
                    /\ ~ActiveName(stmt'[w].dest.f.Name)
              /\ stmt'[w].op # "create" =>
                    /\ stmt'[w] = NoStmt /\ pc'[w] = "done"
                    /\ req'[w].err # ""
                    /\ roles' = roles /\ tx' = tx /\ nextRoleID' = nextRoleID
                    /\ audit_logs' = audit_logs
              /\ faults' # faults =>
                    stmt'[w] = NoStmt /\ req'[w].err = "db error"
              /\ (faults' = faults /\ \A n \in Names : ActiveName(n)) =>
                    stmt'[w] = NoStmt /\ req'[w].err = "name exists"]_vars

\* Every name is taken and a CreateRole call was refused for it.
C25_Witness ==
    \E w \in Workers :
        /\ req[w].call = "CreateRole" /\ pc[w] = "done"
        /\ stmt[w] = NoStmt
        /\ req[w].err = "name exists"
        /\ \A n \in Names : ActiveName(n)

\* A finished CreateRole call for name n, and whether it returned success.
CreateRoleDone(w, n) ==
    /\ req[w].call = "CreateRole" /\ pc[w] = "done"
    /\ stmt[w].op = "create" /\ stmt[w].dest.f.Name = n

\* C26: whatever the interleaving, no two stored roles have the same name, and
\* of two CreateRole calls for one name at most one returns success.
C26_OneRolePerName ==
    /\ \A i, j \in RoleIDs :
          (roles[i].Name # 0 /\ roles[i].Name = roles[j].Name) => i = j
    /\ \A w, v \in Workers, n \in Names :
          (w # v /\ CreateRoleDone(w, n) /\ CreateRoleDone(v, n))
             => (req[w].err # "" \/ req[v].err # "")

\* Two CreateRole calls for one name both passed the name check; one stored
\* the role and the other was rejected by the index.
C26_Witness ==
    \E w, v \in Workers, n \in Names :
        /\ w # v /\ CreateRoleDone(w, n) /\ CreateRoleDone(v, n)
        /\ req[w].err = "" /\ stmt[w].rows = 1
        /\ req[v].err = "duplicate entry"
        /\ Cardinality({id \in RoleIDs : roles[id].Name = n}) = 1

\* An UpdateRole call returned success after writing a row.
UpdateRoleSucceeded(w) ==
    /\ req[w].call = "UpdateRole" /\ pc[w] = "done"
    /\ req[w].err = "" /\ stmt[w].rows = 1

\* The stored fields an UpdateRole call with arguments args may not change,
\* compared between the row just before its write and the row it wrote.
FrameKept(args, before, after) ==
    /\ args[1] = 0 => after.DisplayName = before.DisplayName
    /\ args[2] < 0 => after.Status = before.Status
    /\ after.Name = before.Name
    /\ after.DeletedAt = before.DeletedAt

\* C27 as stated: a successful UpdateRole changes only the supplied fields:
\* with an empty displayName the stored DisplayName, and with a negative
\* status the stored Status, is after the call's write what it was just before
\* it, and so are Name and the deletion marker.
C27_OnlySuppliedFieldsChange ==
    \A w \in Workers :
        UpdateRoleSucceeded(w) =>
            FrameKept(req[w].args, stmt[w].g.pre, stmt[w].g.post)

\* What holds whatever the interleaving: the row written is the row the call
\* loaded with the supplied fields replaced, and Name is never changed.
WritesLoadedRowWithSuppliedFields ==
    \A w \in Workers :
        UpdateRoleSucceeded(w) =>
            /\ stmt[w].g.post = RowOf(stmt[w].dest)
            /\ stmt[w].g.post.Name = stmt[w].g.pre.Name
            /\ req[w].args[1] # 0 => stmt[w].g.post.DisplayName = req[w].args[1]
            /\ req[w].args[2] >= 0 => stmt[w].g.post.Status = req[w].args[2]

\* C28 as stated: when two UpdateRole calls on one role, one supplying only
\* displayName and the other only status, have both returned success, the
\* stored role has both new values.
C28_NoLostUpdate ==
    \A w, v \in Workers :
        (/\ w # v /\ UpdateRoleSucceeded(w) /\ UpdateRoleSucceeded(v)
         /\ stmt[w].dest.f.ID = stmt[v].dest.f.ID
         /\ req[w].args[1] # 0 /\ req[w].args[2] < 0
         /\ req[v].args[1] = 0 /\ req[v].args[2] >= 0)
            => /\ roles[stmt[w].dest.f.ID].DisplayName = req[w].args[1]
               /\ roles[stmt[w].dest.f.ID].Status = req[v].args[2]

\* A role named n was deleted: its row is kept with the deletion marker set.
DeletedName(n) == \E id \in RoleIDs : roles[id].Name = n /\ roles[id].DeletedAt # 0

\* C29 as stated: with no database failure, a CreateRole call for the name of
\* a role deleted before it returns success and an active role of that name
\* is stored.
C29_NameReusableAfterDelete ==
    faults = 0 =>
        \A w \in Workers, n \in Names :
            (req[w].call = "CreateRole" /\ pc[w] = "done" /\ DeletedName(n)
               /\ stmt[w].dest.f.Name = n)
                => req[w].err = "" /\ ActiveName(n)

\* No active role with key id is stored.
NoActiveRole(id) == roles[id].Name = 0 \/ roles[id].DeletedAt # 0

\* C30: an UpdateRole call for an id with no active role ends at its lookup
\* with the lookup's error, having issued no statement and changed neither
\* roles nor audit_logs; and until it returns, the call writes nothing.
C30_UpdateOfMissingRoleWritesNothing ==
    [][\A w \in Workers :
          /\ (/\ req[w].call = "none" /\ req'[w].call = "UpdateRole"
              /\ NoActiveRole(req'[w].args[3])) =>
                 /\ pc'[w] = "done" /\ stmt'[w] = NoStmt
                 /\ req'[w].err =
                       IF faults' = faults THEN "record not found" ELSE "db error"
                 /\ roles' = roles /\ tx' = tx /\ nextRoleID' = nextRoleID
                 /\ audit_logs' = audit_logs /\ nextAuditID' = nextAuditID
          /\ (/\ req[w].call = "UpdateRole" /\ stmt[w] = NoStmt
              /\ pc'[w] # pc[w]) =>
                 /\ pc'[w] = "idle"
                 /\ roles' = roles /\ tx' = tx /\ audit_logs' = audit_logs]_vars

\* UpdateRole for a key with no active role was turned down with
\* record-not-found and left no entry.
C30_Witness ==
    \E w \in Workers :
        /\ req[w].call = "UpdateRole" /\ pc[w] = "done"
        /\ NoActiveRole(req[w].args[3])
        /\ req[w].err = "record not found"
        /\ stmt[w] = NoStmt /\ Appended(w) = <<>>

====
